---- MODULE Spec2Model ----
(***************************************************************************)
(* economic_impact_analysis.py: one linear script that seeds the global    *)
(* NumPy generator, creates the output directory, simulates n_businesses   *)
(* business records, derives decline_percent, writes a CSV and four PNG    *)
(* charts, and prints a final line.                                        *)
(*                                                                         *)
(* Floating-point values are modelled as exact rationals <<num, den>> with *)
(* den > 0; <<0, 0>> is NaN and <<1, 0>>, <<-1, 0>> are +inf and -inf, the *)
(* values NumPy yields for a division by zero.                             *)
(***************************************************************************)
EXTENDS Integers, Sequences, FiniteSets, TLC

VARIABLES
    pc,                 \* the next statement of the script
    run,                \* "first" or "second" invocation of the script
    rng,                \* NumPy's global generator: [seeded, pos]
    mt_stream,          \* the batches seen so far of the stream seed(42) starts
    dir_exists,         \* whether output_images exists
    dir_files,          \* file name -> "foreign" | "stale" | "partial" | "fresh"
    csv_rows,           \* the lines to_csv wrote in this run
    stdout,             \* the lines printed so far
    exit_status,        \* "running" | "zero" | "nonzero"
    traceback,          \* the statement whose exception ended the run, or "none"
    business_ids, business_sectors, pre_covid_revenue,
    drop_factors, post_covid_revenue,
    df,                 \* the DataFrame, column-wise, with its column list
    avg_decline,        \* the grouped means, one record per sector present
    max_rev,            \* df["pre_covid_revenue"].max()
    prev_run            \* what the first invocation generated (kept across a re-run)

vars == <<pc, run, rng, mt_stream, dir_exists, dir_files, csv_rows, stdout,
          exit_status, traceback, business_ids, business_sectors,
          pre_covid_revenue, drop_factors, post_covid_revenue, df,
          avg_decline, max_rev, prev_run>>

\* The number of records; the script uses 1000, the model a small count.
n_businesses == 2

---------------------------------------------------------------------------
\* Exact rational arithmetic standing for the script's float arithmetic.

Abs(x) == IF x < 0 THEN -x ELSE x

RECURSIVE GCD(_, _)
GCD(a, b) == IF b = 0 THEN a ELSE GCD(b, a % b)

Rat(n, d) ==
    IF d = 0 THEN <<(IF n > 0 THEN 1 ELSE IF n < 0 THEN -1 ELSE 0), 0>>
    ELSE LET s == IF d < 0 THEN -1 ELSE 1
             g == GCD(Abs(n), Abs(d))
         IN  <<(s * n) \div g, (s * d) \div g>>

NaN == <<0, 0>>
IsFinite(a) == a[2] # 0
IsNaN(a) == a = NaN

RAdd(a, b) == IF IsFinite(a) /\ IsFinite(b)
              THEN Rat(a[1] * b[2] + b[1] * a[2], a[2] * b[2])
              ELSE IF IsNaN(a) \/ IsNaN(b) \/ (~IsFinite(a) /\ ~IsFinite(b) /\ a # b)
              THEN NaN
              ELSE IF IsFinite(a) THEN b ELSE a
RNeg(a) == <<-a[1], a[2]>>
RSub(a, b) == RAdd(a, RNeg(b))
RMul(a, b) == IF IsFinite(a) /\ IsFinite(b)
              THEN Rat(a[1] * b[1], a[2] * b[2])
              ELSE IF IsNaN(a) \/ IsNaN(b) \/ a[1] = 0 \/ b[1] = 0 THEN NaN
              ELSE Rat(a[1] * b[1], 0)
\* float division: x/0 is +-inf, 0/0 is nan, no exception
RDiv(a, b) == IF IsFinite(a) /\ IsFinite(b)
              THEN Rat(a[1] * b[2], a[2] * b[1])
              ELSE IF IsFinite(a) /\ ~IsNaN(b) THEN <<0, 1>>
              ELSE IF IsFinite(b) /\ ~IsNaN(a)
              THEN (IF b[1] < 0 THEN RNeg(a) ELSE a)
              ELSE NaN
\* comparisons are false when either side is NaN
RLe(a, b) == /\ ~IsNaN(a) /\ ~IsNaN(b)
             /\ IF IsFinite(a) /\ IsFinite(b) THEN a[1] * b[2] <= b[1] * a[2]
                ELSE IF ~IsFinite(a) THEN (a[1] < 0 \/ a = b)
                ELSE b[1] > 0
RLt(a, b) == RLe(a, b) /\ a # b

---------------------------------------------------------------------------
\* Program constants.

output_dir == "output_images"
sectors == <<"Retail", "Hospitality", "Manufacturing", "Services", "Healthcare">>
loc == <<500, 1>>
scale == <<150, 1>>
a_min == <<100, 1>>
low == <<3, 10>>
high == <<1, 1>>
hundred == <<100, 1>>

csv_path == "covid_impact_data.csv"
hist_path == "hist_decline_percent.png"
\* the boxplot saved under the histogram's name
boxplot_path_copied == hist_path
boxplot_path == "boxplot_decline_by_sector.png"
barplot_path == "barplot_avg_decline_by_sector.png"
scatter_path == "scatter_pre_vs_post_revenue.png"
success_line == "All images have been saved"

Artifacts == {csv_path, hist_path, boxplot_path, barplot_path, scatter_path}
\* a file in the directory that the script never names
foreign_file == "notes.txt"
FileNames == Artifacts \cup {foreign_file}

\* What the generator can return, on a grid: an index into sectors, a standard
\* normal deviate (giving -100, 0 and 500 after loc + scale * z), and a
\* random_sample() value in [0, 1).
ChoiceGrid == 1..Len(sectors)
NormalGrid == {<<-4, 1>>, <<-10, 3>>, <<0, 1>>}
UnitGrid == {<<0, 1>>, <<6, 7>>}

ChoiceBatches == [1..n_businesses -> ChoiceGrid]
NormalBatches == [1..n_businesses -> NormalGrid]
UnitBatches == [1..n_businesses -> UnitGrid]

---------------------------------------------------------------------------
\* Pure functions of the script.

\* the seed call left out: the generator keeps its start-up entropy
SeedRngOmitted(r) == r

\* np.random.seed(42): the generator restarts at the head of the seeded stream
SeedRng(r) == [seeded |-> TRUE, pos |-> 0]

\* np.arange(start, stop)
Arange(start, stop) == [i \in 1..(stop - start) |-> start + i - 1]

\* ids counted from zero: np.arange(n)
MakeBusinessIdsFromZero(n) == Arange(0, n)

MakeBusinessIds(n) == Arange(1, n + 1)

\* np.random.choice(sectors, size): one sector per drawn index
Choice(idx) == [i \in 1..Len(idx) |-> sectors[idx[i]]]

\* np.random.normal(loc, scale, size)
Normal(z) == [i \in 1..Len(z) |-> RAdd(loc, RMul(scale, z[i]))]

\* the bound passed as the maximum: np.clip(x, None, a_min)
ClipFromAbove(x, lo) == IF RLt(lo, x) THEN lo ELSE x

\* np.clip(x, a_min, None), one element
Clip(x, lo) == IF RLt(x, lo) THEN lo ELSE x

ClipAll(xs, lo) == [i \in 1..Len(xs) |-> Clip(xs[i], lo)]

\* the width taken for the upper end: low + high * random_sample()
UniformTooWide(lo, hi, u) == [i \in 1..Len(u) |-> RAdd(lo, RMul(hi, u[i]))]

\* np.random.uniform(low, high, size): low + (high - low) * random_sample()
Uniform(lo, hi, u) == [i \in 1..Len(u) |-> RAdd(lo, RMul(RSub(hi, lo), u[i]))]

\* elementwise product of two arrays
Product(xs, ys) == [i \in 1..Len(xs) |-> RMul(xs[i], ys[i])]

\* the drop divided by the post-shock revenue
DeclinePercentOverPost(pre, post) == RMul(RDiv(RSub(pre, post), post), hundred)

\* ((pre - post) / pre) * 100, one element
DeclinePercent(pre, post) == RMul(RDiv(RSub(pre, post), pre), hundred)

DeclineColumn(d) ==
    [i \in 1..Len(d.pre_covid_revenue) |->
        DeclinePercent(d.pre_covid_revenue[i], d.post_covid_revenue[i])]

NoFrame == [columns |-> <<>>, business_id |-> <<>>, sector |-> <<>>,
            pre_covid_revenue |-> <<>>, post_covid_revenue |-> <<>>,
            decline_percent |-> <<>>]

\* pd.DataFrame({...}): the four columns in the order of the dict
DataFrame(ids, secs, pre, post) ==
    [columns |-> <<"business_id", "sector", "pre_covid_revenue", "post_covid_revenue">>,
     business_id |-> ids, sector |-> secs,
     pre_covid_revenue |-> pre, post_covid_revenue |-> post,
     decline_percent |-> <<>>]

\* pd.DataFrame raises ValueError unless all arrays have one length
SameLength(ids, secs, pre, post) ==
    /\ Len(ids) = Len(secs) /\ Len(secs) = Len(pre) /\ Len(pre) = Len(post)

\* the derived values also assigned over post_covid_revenue
WithColumnClobbering(d, name, values) ==
    [d EXCEPT ![name] = values, !.post_covid_revenue = values,
              !.columns = Append(d.columns, name)]

\* df[name] = values: a new column at the end, the others untouched
WithColumn(d, name, values) ==
    [d EXCEPT ![name] = values, !.columns = Append(d.columns, name)]

\* df.to_csv(path, index=False): the header, then one line per record in order
CsvRow(d, i) == [c \in 1..Len(d.columns) |-> d[d.columns[c]][i]]
ToCsv(d) == <<d.columns>> \o [i \in 1..Len(d.business_id) |-> CsvRow(d, i)]

\* df.groupby("sector")["decline_percent"].mean().reset_index(): one pass over
\* the records adds each value to its sector's sum and count (NaN is skipped),
\* then one record per sector seen, in sorted key order.
SortedKeys == <<"Healthcare", "Hospitality", "Manufacturing", "Retail", "Services">>

NoGroups == [s \in {sectors[k] : k \in 1..Len(sectors)} |->
                [seen |-> FALSE, sum |-> <<0, 1>>, count |-> 0]]

RECURSIVE Accumulate(_, _, _)
Accumulate(d, i, acc) ==
    IF i > Len(d.sector) THEN acc
    ELSE LET s == d.sector[i]
             v == d.decline_percent[i]
         IN  Accumulate(d, i + 1,
                IF IsNaN(v) THEN [acc EXCEPT ![s].seen = TRUE]
                ELSE [acc EXCEPT ![s] = [seen |-> TRUE,
                                         sum |-> RAdd(@.sum, v),
                                         count |-> @.count + 1]])

\* the sector's sum, not divided by its count
GroupSum(acc, s) == acc[s].sum

GroupMean(acc, s) == RDiv(acc[s].sum, <<acc[s].count, 1>>)

GroupbyMean(d) ==
    LET acc == Accumulate(d, 1, NoGroups)
        keys == SelectSeq(SortedKeys, LAMBDA s : acc[s].seen)
    IN  [k \in 1..Len(keys) |->
            [sector |-> keys[k], decline_percent |-> GroupMean(acc, keys[k])]]

\* Series.max()
RECURSIVE SeriesMax(_, _, _)
SeriesMax(xs, i, best) ==
    IF i > Len(xs) THEN best
    ELSE SeriesMax(xs, i + 1, IF RLt(best, xs[i]) THEN xs[i] ELSE best)

---------------------------------------------------------------------------
\* The script, statement by statement.

\* the exception caught and dropped: the script carries on
OutcomeSwallowed(ok, stmt, next) ==
    [pc |-> next, exit_status |-> "running", traceback |-> "none"]

\* the exception caught and the statement run again
OutcomeRetried(ok, stmt, next) ==
    [pc |-> IF ok THEN next ELSE stmt, exit_status |-> "running", traceback |-> "none"]

\* No statement sits in a try block: a statement that raises ends the run with a
\* traceback and a non-zero status, one that returns moves on to the next.
Outcome(ok, stmt, next) ==
    IF ok THEN [pc |-> next, exit_status |-> "running", traceback |-> "none"]
    ELSE [pc |-> "failed", exit_status |-> "nonzero", traceback |-> stmt]

Present == {f \in FileNames : dir_files[f] # "absent"}

data_vars == <<business_ids, business_sectors, pre_covid_revenue,
               drop_factors, post_covid_revenue, df, avg_decline, max_rev>>
fs_vars == <<dir_exists, dir_files, csv_rows>>
end_vars == <<exit_status, traceback>>
run_vars == <<run, prev_run>>

\* The batch a call gets. After seed(42) it is the batch of the seeded stream
\* at the generator's position: the stream is fixed, and the model learns it
\* batch by batch as the first call at each position draws. While the
\* generator still holds its start-up entropy, it is any batch at all.
NextBatch(b) ==
    IF rng.seeded
    THEN IF rng.pos < Len(mt_stream)
         THEN b = mt_stream[rng.pos + 1] /\ UNCHANGED mt_stream
         ELSE mt_stream' = Append(mt_stream, b)
    ELSE UNCHANGED mt_stream

Goto(next) == /\ pc' = next
              /\ UNCHANGED end_vars

\* line 30
Seed ==
    /\ pc = "seed"
    /\ rng' = SeedRng(rng)
    /\ Goto("makedirs")
    /\ UNCHANGED <<run_vars, mt_stream, fs_vars, stdout, data_vars>>

\* lines 33-36
MakeOutputDir ==
    /\ pc = "makedirs"
    /\ IF dir_exists
       THEN /\ Goto("arange")
            /\ UNCHANGED <<dir_exists, stdout>>
       ELSE \E ok \in BOOLEAN :
            LET o == Outcome(ok, "makedirs", "arange") IN
            /\ pc' = o.pc
            /\ exit_status' = o.exit_status
            /\ traceback' = o.traceback
            /\ dir_exists' = ok
            /\ stdout' = IF ok /\ o.pc # "failed"
                         THEN Append(stdout, "Created output directory")
                         ELSE stdout
    /\ UNCHANGED <<run_vars, mt_stream, rng, dir_files, csv_rows, data_vars>>

\* line 43
MakeIds ==
    /\ pc = "arange"
    /\ business_ids' = MakeBusinessIds(n_businesses)
    /\ Goto("choice")
    /\ UNCHANGED <<run_vars, mt_stream, rng, fs_vars, stdout, business_sectors,
                   pre_covid_revenue, drop_factors, post_covid_revenue,
                   df, avg_decline, max_rev>>

\* line 44
DrawSectors ==
    /\ pc = "choice"
    /\ \E b \in ChoiceBatches :
        /\ NextBatch(b)
        /\ business_sectors' = Choice(b)
    /\ rng' = [rng EXCEPT !.pos = @ + 1]
    /\ Goto("normal")
    /\ UNCHANGED <<run_vars, fs_vars, stdout, business_ids,
                   pre_covid_revenue, drop_factors, post_covid_revenue,
                   df, avg_decline, max_rev>>

\* line 47
DrawRevenue ==
    /\ pc = "normal"
    /\ \E b \in NormalBatches :
        /\ NextBatch(b)
        /\ pre_covid_revenue' = Normal(b)
    /\ rng' = [rng EXCEPT !.pos = @ + 1]
    /\ Goto("clip")
    /\ UNCHANGED <<run_vars, fs_vars, stdout, business_ids, business_sectors,
                   drop_factors, post_covid_revenue, df, avg_decline, max_rev>>

\* line 48
ClipRevenue ==
    /\ pc = "clip"
    /\ pre_covid_revenue' = ClipAll(pre_covid_revenue, a_min)
    /\ Goto("uniform")
    /\ UNCHANGED <<run_vars, mt_stream, rng, fs_vars, stdout, business_ids, business_sectors,
                   drop_factors, post_covid_revenue, df, avg_decline, max_rev>>

\* line 51
DrawDropFactors ==
    /\ pc = "uniform"
    /\ \E b \in UnitBatches :
        /\ NextBatch(b)
        /\ drop_factors' = Uniform(low, high, b)
    /\ rng' = [rng EXCEPT !.pos = @ + 1]
    /\ Goto("product")
    /\ UNCHANGED <<run_vars, fs_vars, stdout, business_ids, business_sectors,
                   pre_covid_revenue, post_covid_revenue, df, avg_decline, max_rev>>

\* line 52
ApplyDropFactors ==
    /\ pc = "product"
    /\ post_covid_revenue' = Product(pre_covid_revenue, drop_factors)
    /\ Goto("dataframe")
    /\ UNCHANGED <<run_vars, mt_stream, rng, fs_vars, stdout, business_ids, business_sectors,
                   pre_covid_revenue, drop_factors, df, avg_decline, max_rev>>

\* lines 55-60
CreateDataFrame ==
    /\ pc = "dataframe"
    /\ LET ok == SameLength(business_ids, business_sectors,
                            pre_covid_revenue, post_covid_revenue)
           o == Outcome(ok, "dataframe", "decline")
       IN  /\ pc' = o.pc
           /\ exit_status' = o.exit_status
           /\ traceback' = o.traceback
           /\ df' = IF ok THEN DataFrame(business_ids, business_sectors,
                                         pre_covid_revenue, post_covid_revenue)
                    ELSE df
    /\ UNCHANGED <<run_vars, mt_stream, rng, fs_vars, stdout, business_ids, business_sectors,
                   pre_covid_revenue, drop_factors, post_covid_revenue,
                   avg_decline, max_rev>>

\* lines 63-64
DeriveDecline ==
    /\ pc = "decline"
    /\ df' = WithColumn(df, "decline_percent", DeclineColumn(df))
    /\ Goto("to_csv")
    /\ UNCHANGED <<run_vars, mt_stream, rng, fs_vars, stdout, business_ids, business_sectors,
                   pre_covid_revenue, drop_factors, post_covid_revenue,
                   avg_decline, max_rev>>

\* A statement that writes the file at path: the write succeeds, or it raises
\* before the file is opened, or it raises with the file left incomplete. The
\* progress line follows the write.
WriteOutcomes == {"written", "not_opened", "truncated"}

WriteFile(stmt, path, next, line, how) ==
    LET o == Outcome(how = "written", stmt, next) IN
    /\ pc' = o.pc
    /\ exit_status' = o.exit_status
    /\ traceback' = o.traceback
    /\ dir_files' = CASE how = "written" -> [dir_files EXCEPT ![path] = "fresh"]
                      [] how = "truncated" -> [dir_files EXCEPT ![path] = "partial"]
                      [] OTHER -> dir_files
    /\ stdout' = IF o.pc # "failed" THEN Append(stdout, line) ELSE stdout

\* lines 67-69
SaveCsv ==
    /\ pc = "to_csv"
    /\ \E how \in WriteOutcomes :
        /\ WriteFile("to_csv", csv_path, "hist", "Data saved to", how)
        /\ csv_rows' = IF how = "written" THEN ToCsv(df) ELSE csv_rows
    /\ UNCHANGED <<run_vars, mt_stream, rng, dir_exists, data_vars>>

\* lines 74-82
SaveHistogram ==
    /\ pc = "hist"
    /\ \E how \in WriteOutcomes :
        WriteFile("hist", hist_path, "boxplot", "Histogram saved to", how)
    /\ UNCHANGED <<run_vars, mt_stream, rng, dir_exists, csv_rows, data_vars>>

\* lines 85-93
SaveBoxplot ==
    /\ pc = "boxplot"
    /\ \E how \in WriteOutcomes :
        WriteFile("boxplot", boxplot_path, "groupby", "Boxplot saved to", how)
    /\ UNCHANGED <<run_vars, mt_stream, rng, dir_exists, csv_rows, data_vars>>

\* line 96
GroupBySector ==
    /\ pc = "groupby"
    /\ avg_decline' = GroupbyMean(df)
    /\ Goto("barplot")
    /\ UNCHANGED <<run_vars, mt_stream, rng, fs_vars, stdout, business_ids, business_sectors,
                   pre_covid_revenue, drop_factors, post_covid_revenue, df, max_rev>>

\* lines 97-105
SaveBarplot ==
    /\ pc = "barplot"
    /\ \E how \in WriteOutcomes :
        WriteFile("barplot", barplot_path, "scatter", "Bar plot saved to", how)
    /\ UNCHANGED <<run_vars, mt_stream, rng, dir_exists, csv_rows, data_vars>>

\* lines 108-121
SaveScatter ==
    /\ pc = "scatter"
    /\ max_rev' = SeriesMax(df.pre_covid_revenue, 2, df.pre_covid_revenue[1])
    /\ \E how \in WriteOutcomes :
        WriteFile("scatter", scatter_path, "final", "Scatter plot saved to", how)
    /\ UNCHANGED <<run_vars, mt_stream, rng, dir_exists, csv_rows, business_ids,
                   business_sectors, pre_covid_revenue, drop_factors,
                   post_covid_revenue, df, avg_decline>>

\* line 123, and the interpreter leaving with status 0 at the end of the script
Finish ==
    /\ pc = "final"
    /\ stdout' = Append(stdout, success_line)
    /\ pc' = "done"
    /\ exit_status' = "zero"
    /\ UNCHANGED <<run_vars, mt_stream, rng, fs_vars, traceback, data_vars>>

---------------------------------------------------------------------------
\* A fresh process: nothing assigned, nothing printed, the generator holding
\* its start-up entropy.
FreshRng == [seeded |-> FALSE, pos |-> 0]

FreshProcess ==
    /\ pc = "seed"
    /\ rng = FreshRng
    /\ csv_rows = <<>>
    /\ stdout = <<>>
    /\ exit_status = "running"
    /\ traceback = "none"
    /\ business_ids = <<>>
    /\ business_sectors = <<>>
    /\ pre_covid_revenue = <<>>
    /\ drop_factors = <<>>
    /\ post_covid_revenue = <<>>
    /\ df = NoFrame
    /\ avg_decline = <<>>
    /\ max_rev = NaN

\* The directory as a run can find it: absent; or present and empty, or
\* holding the five files of an earlier run, or holding a file of someone else.
StartDirs ==
    {[f \in FileNames |-> "absent"],
     [f \in FileNames |-> IF f \in Artifacts THEN "stale" ELSE "absent"],
     [f \in FileNames |-> IF f = foreign_file THEN "foreign" ELSE "absent"]}

Init ==
    /\ FreshProcess
    /\ run = "first"
    /\ prev_run = <<>>
    /\ mt_stream = <<>>
    /\ dir_exists \in BOOLEAN
    /\ dir_files \in StartDirs
    /\ ~dir_exists => dir_files = [f \in FileNames |-> "absent"]

Next ==
    \/ Seed
    \/ MakeOutputDir
    \/ MakeIds
    \/ DrawSectors
    \/ DrawRevenue
    \/ ClipRevenue
    \/ DrawDropFactors
    \/ ApplyDropFactors
    \/ CreateDataFrame
    \/ DeriveDecline
    \/ SaveCsv
    \/ SaveHistogram
    \/ SaveBoxplot
    \/ GroupBySector
    \/ SaveBarplot
    \/ SaveScatter
    \/ Finish

Spec == Init /\ [][Next]_vars

---------------------------------------------------------------------------
\* The script invoked a second time after a completed run: a new process, the
\* directory as the first run left it. prev_run keeps what the first run
\* generated.
Aged(files) == [f \in FileNames |->
                    IF files[f] \in {"fresh", "partial"} THEN "stale" ELSE files[f]]

Rerun ==
    /\ pc = "done"
    /\ run = "first"
    /\ run' = "second"
    /\ prev_run' = <<business_sectors, pre_covid_revenue, drop_factors, df>>
    /\ dir_files' = Aged(dir_files)
    /\ pc' = "seed"
    /\ rng' = FreshRng
    /\ csv_rows' = <<>>
    /\ stdout' = <<>>
    /\ exit_status' = "running"
    /\ traceback' = "none"
    /\ business_ids' = <<>>
    /\ business_sectors' = <<>>
    /\ pre_covid_revenue' = <<>>
    /\ drop_factors' = <<>>
    /\ post_covid_revenue' = <<>>
    /\ df' = NoFrame
    /\ avg_decline' = <<>>
    /\ max_rev' = NaN
    /\ UNCHANGED <<mt_stream, dir_exists>>

NextRerun == Next \/ Rerun

SpecRerun == Init /\ [][NextRerun]_vars

---------------------------------------------------------------------------
\* Properties.

Zero == <<0, 1>>
Seventy == <<70, 1>>
Lines == {stdout[k] : k \in 1..Len(stdout)}
Derived == Len(df.columns) = 5
RowsOf(s) == {i \in 1..Len(df.sector) : df.sector[i] = s}

RECURSIVE SumOver(_, _)
SumOver(xs, S) ==
    IF S = {} THEN Zero
    ELSE LET i == CHOOSE j \in S : TRUE
         IN  RAdd(xs[i], SumOver(xs, S \ {i}))

\* C1: every record's decline_percent lies in [0, 70] once it has been derived.
C1_DeclineWithinBounds ==
    \A i \in 1..Len(df.decline_percent) :
        /\ RLe(Zero, df.decline_percent[i])
        /\ RLe(df.decline_percent[i], Seventy)

\* a clamped record at drop factor 0.3 sits on the upper bound
C1_Witness ==
    /\ Derived
    /\ \E i \in 1..Len(df.decline_percent) :
        /\ df.decline_percent[i] = Seventy
        /\ df.pre_covid_revenue[i] = a_min
        /\ mt_stream[2][i] = <<-4, 1>>

\* C2: once the clamp has run every pre_covid_revenue is at least 100, whatever
\* was drawn, so the divisor of decline_percent is never zero and every
\* decline_percent is a finite number.
C2_RevenueAtLeastFloor ==
    /\ pc \notin {"normal", "clip"} =>
        \A i \in 1..Len(pre_covid_revenue) :
            RLe(a_min, pre_covid_revenue[i]) /\ pre_covid_revenue[i] # Zero
    /\ \A i \in 1..Len(df.pre_covid_revenue) :
            RLe(a_min, df.pre_covid_revenue[i]) /\ df.pre_covid_revenue[i] # Zero
    /\ \A i \in 1..Len(df.decline_percent) : IsFinite(df.decline_percent[i])

\* a negative draw and a zero draw, both clamped, then divided by
C2_Witness ==
    /\ pc = "to_csv"
    /\ \E i, j \in 1..n_businesses :
        /\ RLt(Normal(mt_stream[2])[i], Zero)
        /\ Normal(mt_stream[2])[j] = Zero
        /\ df.pre_covid_revenue[i] = a_min
        /\ df.pre_covid_revenue[j] = a_min
        /\ IsFinite(df.decline_percent[i])
        /\ IsFinite(df.decline_percent[j])

\* C3: the written CSV has the header and exactly n_businesses data lines, and
\* line i carries business_id i: the ids 1..N, once each, ascending.
C3_CsvRowsAndIds ==
    dir_files[csv_path] = "fresh" =>
        /\ Len(csv_rows) = n_businesses + 1
        /\ csv_rows[1] = <<"business_id", "sector", "pre_covid_revenue",
                           "post_covid_revenue", "decline_percent">>
        /\ \A i \in 1..n_businesses : csv_rows[i + 1][1] = i

C3_Witness ==
    /\ pc = "hist"
    /\ dir_files[csv_path] = "fresh"
    /\ Len(csv_rows) > 1
    /\ csv_rows[Len(csv_rows)][1] = n_businesses

\* C4: the second run draws the sector, pre_covid_revenue and drop_factor
\* sequences the first run drew, and builds the same table, although it finds
\* the directory in another state.
C4_SameSeedSameData ==
    run = "second" =>
        /\ Len(business_sectors) > 0 => business_sectors = prev_run[1]
        /\ (Len(pre_covid_revenue) > 0 /\ pc # "clip") =>
                pre_covid_revenue = prev_run[2]
        /\ Len(drop_factors) > 0 => drop_factors = prev_run[3]
        /\ Derived => df = prev_run[4]

\* the second run found the directory and its files, and finished
C4_Witness ==
    /\ run = "second"
    /\ pc = "done"
    /\ "Created output directory" \notin Lines
    /\ df = prev_run[4]
    /\ business_sectors[1] # business_sectors[n_businesses]

\* C5 as stated: after a successful run the directory holds exactly five files.
C5_ExactlyFiveFiles ==
    pc = "done" => Cardinality(Present) = 5

\* C5 amended: after a successful run the directory holds the five files the
\* run wrote, the table and the four images, and the run neither adds nor
\* removes any other file.
C5_FiveArtifactsOthersKept ==
    /\ [](pc = "done" =>
            /\ Artifacts \subseteq Present
            /\ Cardinality({f \in FileNames : dir_files[f] = "fresh"}) = 5)
    /\ [][dir_files'[foreign_file] = dir_files[foreign_file]]_vars

\* the directory held older copies and nothing else: exactly the five files
C5_Witness ==
    /\ pc = "done"
    /\ Present = Artifacts
    /\ "Created output directory" \notin Lines

\* C6: the success line and the zero exit status appear only when all five
\* files have been written by this run.
C6_SuccessMeansAllWritten ==
    (success_line \in Lines \/ exit_status = "zero") =>
        \A f \in Artifacts : dir_files[f] = "fresh"

C6_Witness ==
    /\ exit_status = "zero"
    /\ success_line \in Lines
    /\ \A f \in Artifacts : dir_files[f] = "fresh"

\* C7: a failed makedirs or write ends the run: status non-zero, no success
\* line, no file and no progress line of the failing or a later statement, no
\* statement run again, and nothing changes afterwards.
WriteSteps == <<[stmt |-> "to_csv", path |-> csv_path, line |-> "Data saved to"],
                [stmt |-> "hist", path |-> hist_path, line |-> "Histogram saved to"],
                [stmt |-> "boxplot", path |-> boxplot_path, line |-> "Boxplot saved to"],
                [stmt |-> "barplot", path |-> barplot_path, line |-> "Bar plot saved to"],
                [stmt |-> "scatter", path |-> scatter_path,
                 line |-> "Scatter plot saved to"]>>

FirstUnrun(stmt) ==
    IF \E k \in 1..Len(WriteSteps) : WriteSteps[k].stmt = stmt
    THEN CHOOSE k \in 1..Len(WriteSteps) : WriteSteps[k].stmt = stmt
    ELSE 1

C7_FailureIsFatal ==
    /\ [](pc = "failed" =>
            /\ exit_status = "nonzero"
            /\ traceback # "none"
            /\ success_line \notin Lines
            /\ traceback = "makedirs" => (~dir_exists /\ stdout = <<>>)
            /\ \A k \in FirstUnrun(traceback)..Len(WriteSteps) :
                /\ dir_files[WriteSteps[k].path] # "fresh"
                /\ WriteSteps[k].line \notin Lines)
    /\ []((\E f \in FileNames : dir_files[f] = "partial") => pc = "failed")
    /\ [][pc = "failed" => UNCHANGED vars]_vars
    /\ [][pc' # pc]_vars

\* the boxplot was cut short after the CSV and the histogram had been written
C7_Witness ==
    /\ pc = "failed"
    /\ traceback = "boxplot"
    /\ dir_files[boxplot_path] = "partial"
    /\ dir_files[hist_path] = "fresh"
    /\ dir_files[barplot_path] # "fresh"

\* C8: avg_decline has one entry per sector present in the table and none for
\* any other, and each entry is the sum of that sector's decline_percent
\* divided by the number of its records.
C8_GroupedMeans ==
    Len(avg_decline) > 0 =>
        LET present == {df.sector[i] : i \in 1..Len(df.sector)} IN
        /\ Len(avg_decline) = Cardinality(present)
        /\ \A s \in present :
            \E k \in 1..Len(avg_decline) :
                /\ avg_decline[k].sector = s
                /\ RMul(avg_decline[k].decline_percent,
                        <<Cardinality(RowsOf(s)), 1>>)
                     = SumOver(df.decline_percent, RowsOf(s))

\* a sector with records of different decline next to an absent sector
C8_Witness ==
    /\ pc = "barplot"
    /\ \E k \in 1..Len(avg_decline) :
        /\ Cardinality(RowsOf(avg_decline[k].sector)) > 1
        /\ avg_decline[k].decline_percent = <<40, 1>>
    /\ Len(avg_decline) < Len(sectors)

\* df["decline_percent"].mean()
ColumnMean == RDiv(SumOver(df.decline_percent, 1..Len(df.decline_percent)),
                   <<Len(df.decline_percent), 1>>)

C10_TableReadOnly ==
    [][/\ Len(df.columns) > 0 =>
            /\ df'.business_id = df.business_id
            /\ df'.sector = df.sector
            /\ df'.pre_covid_revenue = df.pre_covid_revenue
            /\ df'.post_covid_revenue = df.post_covid_revenue
       /\ Derived => df' = df]_vars

C10_Witness ==
    /\ pc = "done"
    /\ Derived
    /\ df.post_covid_revenue = post_covid_revenue
    /\ df.pre_covid_revenue = pre_covid_revenue
    /\ Len(avg_decline) > 1

====
